---- MODULE Spec2Model ----
(***************************************************************************)
(* A model of the system-monitor extension: the SystemMonitorPanel         *)
(* lifecycle (createOrShow / revive / dispose / view-state changes), the   *)
(* snapshot request _update -> _getHtmlForWebview with its probe calls,    *)
(* and the report renderer (the template literal returned by               *)
(* _getHtmlForWebview).                                                    *)
(***************************************************************************)
EXTENDS Integers, Sequences, FiniteSets, TLC

(***************************************************************************)
(* Bounds of the model.                                                    *)
(***************************************************************************)
MaxPanels == 2
MaxRequests == 2
MaxNotices == 1
MaxCores == 2
MaxMounts == 2

Panels == 1..MaxPanels
Requests == 1..MaxRequests

(***************************************************************************)
(* JavaScript values.  A finite number is n/d * 2^e, which keeps byte      *)
(* counts of several GiB and the divisions by 1024 exact.                  *)
(***************************************************************************)
Undefined == [t |-> "undefined"]
NaN == [t |-> "NaN"]
Infinity == [t |-> "Infinity"]
Fin(n, d, e) == [t |-> "num", n |-> n, d |-> d, e |-> e]
Num(n) == Fin(n, 1, 0)
KiB(n) == Fin(n, 1, 10)
GiB(n) == Fin(n, 1, 30)
Text(s) == [t |-> "str", s |-> s]

IsNum(x) == x.t = "num"
IsZero(x) == IsNum(x) /\ x.n = 0

RECURSIVE Pow2(_)
Pow2(k) == IF k <= 0 THEN 1 ELSE 2 * Pow2(k - 1)

Min(a, b) == IF a <= b THEN a ELSE b

\* x / y on JavaScript numbers (undefined converts to NaN)
JsDiv(x, y) ==
    IF x.t \in {"NaN", "undefined"} \/ y.t \in {"NaN", "undefined"} THEN NaN
    ELSE IF x.t = "Infinity" THEN (IF y.t = "Infinity" THEN NaN ELSE Infinity)
    ELSE IF y.t = "Infinity" THEN Num(0)
    ELSE IF IsZero(y) THEN (IF IsZero(x) THEN NaN ELSE Infinity)
    ELSE Fin(x.n * y.d, x.d * y.n, x.e - y.e)

\* x * y on JavaScript numbers
JsMul(x, y) ==
    IF x.t \in {"NaN", "undefined"} \/ y.t \in {"NaN", "undefined"} THEN NaN
    ELSE IF x.t = "Infinity" \/ y.t = "Infinity"
         THEN (IF IsZero(x) \/ IsZero(y) THEN NaN ELSE Infinity)
    ELSE Fin(x.n * y.n, x.d * y.d, x.e + y.e)

\* x - y on JavaScript numbers with integral mantissas
JsSub(x, y) ==
    IF x.t \in {"NaN", "undefined"} \/ y.t \in {"NaN", "undefined"} THEN NaN
    ELSE IF x.t = "Infinity" THEN (IF y.t = "Infinity" THEN NaN ELSE Infinity)
    ELSE IF y.t = "Infinity" THEN [t |-> "-Infinity"]
    ELSE LET e0 == Min(x.e, y.e)
         IN  Fin(x.n * y.d * Pow2(x.e - e0) - y.n * x.d * Pow2(y.e - e0),
                 x.d * y.d, e0)

Pad2(k) == IF k < 10 THEN "0" \o ToString(k) ELSE ToString(k)

\* the number of hundredths nearest to a finite x >= 0 (ties go up)
Hundredths(x) ==
    LET N == x.n * 100 * Pow2(x.e)
        D == x.d * Pow2(0 - x.e)
        q == N \div D
        r == N % D
    IN  IF r >= D - r THEN q + 1 ELSE q

\* Number.prototype.toFixed(2)
ToFixed2(x) ==
    IF x.t \in {"NaN", "undefined"} THEN "NaN"
    ELSE IF x.t = "Infinity" THEN "Infinity"
    ELSE LET h == Hundredths(x)
         IN  ToString(h \div 100) \o "." \o Pad2(h % 100)

\* String(v), as a template literal's ${v} converts a value
Str(v) ==
    IF v.t = "str" THEN v.s
    ELSE IF v.t = "num" THEN ToString(v.n * Pow2(v.e))
    ELSE v.t

\* prettyBytes(x): pretty-bytes is an npm dependency, so its text is kept symbolic:
\* the call applied to the number it was given
PrettyBytes(x) ==
    Text("prettyBytes(" \o (IF x.t = "num"
                            THEN ToString(x.n) \o "/" \o ToString(x.d) \o "*2^" \o ToString(x.e)
                            ELSE x.t) \o ")")

\* a[i] for a JavaScript array a and a 0-based index i
At(a, i) == IF i + 1 \in DOMAIN a THEN a[i + 1] ELSE Undefined

(***************************************************************************)
(* The probes, in the order _getHtmlForWebview awaits them.                *)
(***************************************************************************)
ProbeOrder ==
    << "staticData", "locale", "listeningIp", "time", "currentLoad",
       "cpuCurrentspeed", "cpuTemp", "processes", "memoryUsage", "fsSizes" >>

NProbes == Len(ProbeOrder)
Probes == {ProbeOrder[i] : i \in 1..NProbes}

\* the index of probe p in ProbeOrder
ProbeIndex(p) == CHOOSE i \in 1..NProbes : ProbeOrder[i] = p

(***************************************************************************)
(* What the host can answer to each probe.                                 *)
(***************************************************************************)
CacheRecord == [l1d |-> KiB(32), l1i |-> KiB(32), l2 |-> KiB(256), l3 |-> KiB(8192)]
\* a host that reports no cache sizes
NoCache == [l1d |-> Undefined, l1i |-> Undefined, l2 |-> Undefined, l3 |-> Undefined]
\* the elements of the list-valued fields of si.getStaticData(), each named m
Gpu(m) == [model |-> Text(m), vram |-> Num(2048)]
Display(m) == [model |-> Text(m), main |-> Text("true"),
               resolutionx |-> Num(1920), resolutiony |-> Num(1080)]
MemModule(m) == [size |-> GiB(8), bank |-> Text(m), type |-> Text("DDR4")]
Disk(m) == [type |-> Text("SSD"), name |-> Text(m), size |-> GiB(16)]

\* si.getStaticData() on a host whose GPUs, displays, memory modules and disks are
\* reported under the names in `names`, in that order
StaticSample(cache, names) ==
    [ os |-> [hostname |-> Text("host"), distro |-> Text("Ubuntu")],
      versions |-> [kernel |-> Text("5.4.0")],
      cpu |-> [cache |-> cache],
      graphics |-> [controllers |-> [i \in DOMAIN names |-> Gpu(names[i])],
                    displays |-> [i \in DOMAIN names |-> Display(names[i])]],
      memLayout |-> [i \in DOMAIN names |-> MemModule(names[i])],
      diskLayout |-> [i \in DOMAIN names |-> Disk(names[i])] ]

\* no element, one, two in descending order, and two equal ones
HardwareLists == {<< >>, << "A" >>, << "B", "A" >>, << "A", "A" >>}

StaticSamples ==
    { StaticSample(c, g) : c \in {CacheRecord, NoCache}, g \in HardwareLists }

\* byte counts k * 2^e with k in MemUnits: 0, 1, 3, 8 or 16 bytes or GiB
MemUnits == {0, 1, 3, 8, 16}
MemScales == {0, 30}

MemSample(e, used, total, swapused, swaptotal) ==
    [ total |-> Fin(total, 1, e), used |-> Fin(used, 1, e),
      free |-> Fin(total - used, 1, e), active |-> Fin(used, 1, e),
      buffcache |-> Fin(0, 1, e),
      swaptotal |-> Fin(swaptotal, 1, e), swapused |-> Fin(swapused, 1, e),
      swapfree |-> Fin(swaptotal - swapused, 1, e) ]

\* the host keeps used <= total, total > 0 and swapused <= swaptotal
MemSamples ==
    { MemSample(q[1], q[2], q[3], q[4], q[5]) :
        q \in { w \in MemScales \X MemUnits \X (MemUnits \ {0}) \X {0, 8} \X {0, 8} :
                  w[2] <= w[3] /\ w[4] <= w[5] } }

\* one filesystem entry of si.fsSize(): size and used in GiB
FsEntry(mount, size, used, available) ==
    [ fs |-> Text("/dev/sda1"), type |-> Text("ext4"), size |-> GiB(size),
      used |-> GiB(used), available |-> GiB(available),
      use |-> (IF size = 0 THEN Num(0) ELSE Fin(used * 100, size, 0)),
      mount |-> Text(mount) ]

\* a filesystem with reserved blocks (available < size - used), a full one and a
\* pseudo filesystem of size 0
FsEntries == { FsEntry("/", 16, 8, 7), FsEntry("/data", 8, 8, 0), FsEntry("/proc", 0, 0, 0) }

RECURSIVE SeqsUpTo(_, _)
\* the sequences over S of length at most n
SeqsUpTo(S, n) ==
    IF n = 0 THEN {<< >>}
    ELSE LET shorter == SeqsUpTo(S, n - 1)
         IN  shorter \cup { Append(q, x) : q \in shorter, x \in S }

FsLists == SeqsUpTo(FsEntries, MaxMounts)

\* si.currentLoad() on a host of n logical cores
LoadSample(n) == [avgLoad |-> Num(1), cpus |-> [i \in 1..n |-> [load |-> Num(60 - 10 * i)]]]
\* si.cpuCurrentSpeed() / si.cpuTemperature() reporting k cores
SpeedSample(k) == [cores |-> [i \in 1..k |-> Num(2)]]
TempSample(k) == [cores |-> [i \in 1..k |-> Num(45)]]

\* the per-core probes report every core or, where sensors are missing, none
CpuSamples ==
    { [load |-> LoadSample(n), speed |-> SpeedSample(ks * n), temp |-> TempSample(kt * n)] :
        n \in 1..MaxCores, ks \in {0, 1}, kt \in {0, 1} }

TimeSample == [uptime |-> Num(3600), timezone |-> Text("GMT+0000"), timezoneName |-> Text("UTC")]
ProcessSample == [all |-> Num(5), running |-> Num(1), sleeping |-> Num(3),
                  blocked |-> Num(0), unknown |-> Num(1)]
Locales == {Text("en_US"), Text("de_DE")}
IpSample == Text("203.0.113.7")

(***************************************************************************)
(* Snapshot assembly and the report (the template literal).                *)
(***************************************************************************)
\* the fsSize mapping of the probe's list
\* mutant: the free figure is taken from the probe's available
MapFsSizeAvailable(fsSizes) ==
    [ i \in DOMAIN fsSizes |->
        [ prettySize |-> PrettyBytes(fsSizes[i].size),
          prettyUsed |-> PrettyBytes(fsSizes[i].used),
          prettyFree |-> PrettyBytes(fsSizes[i].available),
          fs |-> fsSizes[i].fs, type |-> fsSizes[i].type, size |-> fsSizes[i].size,
          used |-> fsSizes[i].used, available |-> fsSizes[i].available,
          use |-> fsSizes[i].use, mount |-> fsSizes[i].mount ] ]

MapFsSize(fsSizes) ==
    [ i \in DOMAIN fsSizes |->
        [ prettySize |-> PrettyBytes(fsSizes[i].size),
          prettyUsed |-> PrettyBytes(fsSizes[i].used),
          prettyFree |-> PrettyBytes(JsSub(fsSizes[i].size, fsSizes[i].used)),
          fs |-> fsSizes[i].fs, type |-> fsSizes[i].type, size |-> fsSizes[i].size,
          used |-> fsSizes[i].used, available |-> fsSizes[i].available,
          use |-> fsSizes[i].use, mount |-> fsSizes[i].mount ] ]

\* the input record, from the values the awaits left in the locals
AssembleInput(loc) ==
    [ staticData |-> loc["staticData"], locale |-> loc["locale"],
      listeningIp |-> loc["listeningIp"], time |-> loc["time"],
      currentLoad |-> loc["currentLoad"], processes |-> loc["processes"],
      memoryUsage |-> loc["memoryUsage"], fsSize |-> MapFsSize(loc["fsSizes"]),
      cpuCurrentspeed |-> loc["cpuCurrentspeed"], cpuTemp |-> loc["cpuTemp"] ]

N1024 == Fin(1, 1, 10)

\* mutant: the ratio is not scaled to a percentage
PercentCellUnscaled(a, b) == ToFixed2(JsDiv(a, b)) \o "%"

\* (a / b * 100).toFixed(2) followed by %
PercentCell(a, b) == ToFixed2(JsMul(JsDiv(a, b), Num(100))) \o "%"

\* (x / 1024 / 1024 / 1024).toFixed(2) GB
GBCell(x) == ToFixed2(JsDiv(JsDiv(JsDiv(x, N1024), N1024), N1024)) \o " GB"

\* (x / 1024 / 1024).toFixed(2) MB
MBCell(x) == ToFixed2(JsDiv(JsDiv(x, N1024), N1024)) \o " MB"

\* one row of the CPU Usage table; index is 0-based
CpuRow(input, index) ==
    [ core |-> "Core " \o ToString(index + 1),
      load |-> ToFixed2(At(input.currentLoad.cpus, index).load) \o "%",
      speed |-> Str(At(input.cpuCurrentspeed.cores, index)) \o " Ghz",
      temp |-> Str(At(input.cpuTemp.cores, index)) ]

PhysicalRow(m) ==
    [ usage |-> PercentCell(m.used, m.total),
      active |-> PercentCell(m.active, m.total),
      buffcache |-> PercentCell(m.buffcache, m.total),
      free |-> GBCell(m.free), used |-> GBCell(m.used), total |-> GBCell(m.total) ]

\* mutant: a host without swap gets a one-cell row
SwapRowIfPresent(m) ==
    IF IsZero(m.swaptotal)
    THEN [ usage |-> "N/A" ]
    ELSE [ usage |-> PercentCell(m.swapused, m.swaptotal),
           free |-> GBCell(m.swapfree), used |-> GBCell(m.swapused),
           total |-> GBCell(m.swaptotal) ]

SwapRow(m) ==
    [ usage |-> PercentCell(m.swapused, m.swaptotal),
      free |-> GBCell(m.swapfree), used |-> GBCell(m.swapused),
      total |-> GBCell(m.swaptotal) ]

StorageRow(storage) ==
    [ mount |-> Str(storage.mount), type |-> Str(storage.type), fs |-> Str(storage.fs),
      usage |-> PercentCell(storage.used, storage.size),
      free |-> Str(storage.prettyFree), used |-> Str(storage.prettyUsed),
      total |-> Str(storage.prettySize) ]

CacheRows(cache) ==
    [ l1d |-> MBCell(cache.l1d), l1i |-> MBCell(cache.l1i),
      l2 |-> MBCell(cache.l2), l3 |-> MBCell(cache.l3) ]

\* one GPU sub-table; index is 0-based
GpuRow(gpu, index) ==
    [ label |-> ToString(index), model |-> Str(gpu.model),
      vram |-> Str(gpu.vram) \o " MB" ]

\* one Display sub-table; index is 0-based
DisplayRow(display, index) ==
    [ label |-> ToString(index + 1), model |-> Str(display.model),
      main |-> Str(display.main), resolutionx |-> Str(display.resolutionx),
      resolutiony |-> Str(display.resolutiony) ]

\* one memLayout sub-table; index is 0-based
MemLayoutRow(mem, index) ==
    [ label |-> ToString(index + 1), size |-> GBCell(mem.size),
      bank |-> Str(mem.bank), type |-> Str(mem.type) ]

\* one diskLayout sub-table; index is 0-based
DiskRow(disk, index) ==
    [ label |-> ToString(index + 1), type |-> Str(disk.type),
      name |-> Str(disk.name), size |-> GBCell(disk.size) ]

\* mutant: an empty filesystem list gets a placeholder row
StorageRowsOrPlaceholder(fsSize) ==
    IF fsSize = << >>
    THEN << [mount |-> "N/A", type |-> "N/A", fs |-> "N/A", usage |-> "N/A",
             free |-> "N/A", used |-> "N/A", total |-> "N/A"] >>
    ELSE [ i \in DOMAIN fsSize |-> StorageRow(fsSize[i]) ]

\* the rows input.fsSize.map produces
StorageRows(fsSize) == [ i \in DOMAIN fsSize |-> StorageRow(fsSize[i]) ]

\* the column titles of the Storage Usage table
StorageHead == << "Mount", "Type", "Fs", "Usage", "Free", "Used", "Total" >>

\* the rows input.currentLoad.cpus.map produces
CpuRows(input) == [ i \in DOMAIN input.currentLoad.cpus |-> CpuRow(input, i - 1) ]

\* mutant: the sub-tables in reverse order
GpuRowsReversed(controllers) ==
    [ i \in DOMAIN controllers |->
        GpuRow(controllers[Len(controllers) + 1 - i], i - 1) ]

\* the sub-tables the four .map calls over the static lists produce
GpuRows(controllers) == [ i \in DOMAIN controllers |-> GpuRow(controllers[i], i - 1) ]
DisplayRows(displays) == [ i \in DOMAIN displays |-> DisplayRow(displays[i], i - 1) ]
MemLayoutRows(memLayout) == [ i \in DOMAIN memLayout |-> MemLayoutRow(memLayout[i], i - 1) ]
DiskRows(diskLayout) == [ i \in DOMAIN diskLayout |-> DiskRow(diskLayout[i], i - 1) ]

RECURSIVE Join(_, _)
\* Array.prototype.join: the strings of parts with sep between consecutive ones
Join(parts, sep) ==
    IF parts = << >> THEN ""
    ELSE IF Len(parts) = 1 THEN parts[1]
    ELSE parts[1] \o sep \o Join(Tail(parts), sep)

\* an array interpolated into a template literal: Array.prototype.toString, which
\* is join(",")
ArrayToString(parts) == Join(parts, ",")

\* the markup of one row or sub-table, from its cells
CpuFragment(row) ==
    "<tr><td>" \o row.core \o "</td><td>" \o row.load \o "</td><td>" \o row.speed
        \o "</td><td>" \o row.temp \o "</td></tr>"
StorageFragment(row) ==
    "<tr><td>" \o row.mount \o "</td><td>" \o row.type \o "</td><td>" \o row.fs
        \o "</td><td>" \o row.usage \o "</td><td>" \o row.free \o "</td><td>" \o row.used
        \o "</td><td>" \o row.total \o "</td></tr>"
GpuFragment(row) ==
    "<tr><td>" \o row.label \o "</td><td><table><tbody>"
        \o "<tr><td>Model</td><td>" \o row.model \o "</td></tr>"
        \o "<tr><td>Vram</td><td>" \o row.vram \o "</td></tr>"
        \o "</tbody></table></td></tr>"
DisplayFragment(row) ==
    "<tr><td>" \o row.label \o "</td><td><table><tbody>"
        \o "<tr><td>Model</td><td>" \o row.model \o "</td></tr>"
        \o "<tr><td>Main</td><td>" \o row.main \o "</td></tr>"
        \o "<tr><td>ResolutionX</td><td>" \o row.resolutionx \o "</td></tr>"
        \o "<tr><td>ResolutionY</td><td>" \o row.resolutiony \o "</td></tr>"
        \o "</tbody></table></td></tr>"
MemLayoutFragment(row) ==
    "<tr><td>" \o row.label \o "</td><td><table><tbody>"
        \o "<tr><td>Size</td><td>" \o row.size \o "</td></tr>"
        \o "<tr><td>Bank</td><td>" \o row.bank \o "</td></tr>"
        \o "<tr><td>Type</td><td>" \o row.type \o "</td></tr>"
        \o "</tbody></table></td></tr>"
DiskFragment(row) ==
    "<tr><td>" \o row.label \o "</td><td><table><tbody>"
        \o "<tr><td>Type</td><td>" \o row.type \o "</td></tr>"
        \o "<tr><td>Name</td><td>" \o row.name \o "</td></tr>"
        \o "<tr><td>Size</td><td>" \o row.size \o "</td></tr>"
        \o "</tbody></table></td></tr>"

\* the text each list section puts into the document: the array of fragments is
\* interpolated as it is, except for the GPU section, which joins it with ""
CpuText(rows) == ArrayToString([ i \in DOMAIN rows |-> CpuFragment(rows[i]) ])
StorageText(rows) == ArrayToString([ i \in DOMAIN rows |-> StorageFragment(rows[i]) ])
GpuText(rows) == Join([ i \in DOMAIN rows |-> GpuFragment(rows[i]) ], "")
DisplayText(rows) == ArrayToString([ i \in DOMAIN rows |-> DisplayFragment(rows[i]) ])
MemLayoutText(rows) == ArrayToString([ i \in DOMAIN rows |-> MemLayoutFragment(rows[i]) ])
DiskText(rows) == ArrayToString([ i \in DOMAIN rows |-> DiskFragment(rows[i]) ])

VitalRows(input) ==
    [ hostname |-> Str(input.staticData.os.hostname),
      listeningIp |-> Str(input.listeningIp),
      kernel |-> Str(input.staticData.versions.kernel),
      distro |-> Str(input.staticData.os.distro),
      avgLoad |-> Str(input.currentLoad.avgLoad) \o "%",
      locale |-> Str(input.locale),
      timezone |-> Str(input.time.timezone),
      timezoneName |-> Str(input.time.timezoneName),
      processes |-> Str(input.processes.all) ]

\* the report _getHtmlForWebview returns for an assembled input
Render(input) ==
    [ vital |-> VitalRows(input),
      cpu |-> CpuRows(input),
      physical |-> PhysicalRow(input.memoryUsage),
      swap |-> SwapRow(input.memoryUsage),
      storageHead |-> StorageHead,
      storage |-> StorageRows(input.fsSize),
      cache |-> CacheRows(input.staticData.cpu.cache),
      gpu |-> GpuRows(input.staticData.graphics.controllers),
      display |-> DisplayRows(input.staticData.graphics.displays),
      memLayout |-> MemLayoutRows(input.staticData.memLayout),
      diskLayout |-> DiskRows(input.staticData.diskLayout),
      text |-> [ cpu |-> CpuText(CpuRows(input)),
                 storage |-> StorageText(StorageRows(input.fsSize)),
                 gpu |-> GpuText(GpuRows(input.staticData.graphics.controllers)),
                 display |-> DisplayText(DisplayRows(input.staticData.graphics.displays)),
                 memLayout |-> MemLayoutText(MemLayoutRows(input.staticData.memLayout)),
                 diskLayout |-> DiskText(DiskRows(input.staticData.diskLayout)) ] ]

(***************************************************************************)
(* State.                                                                  *)
(***************************************************************************)
VARIABLES
    currentPanel,  \* SystemMonitorPanel.currentPanel: a panel, or 0 for undefined
    panelState,    \* per instance: "none" (not constructed), "live" or "disposed"
    visible,       \* per instance: _panel.visible
    disposables,   \* per instance: _disposables, the registered listeners
    disposals,     \* per instance and listener: dispose() calls on its registration
    title,         \* per instance: _panel.title
    html,          \* per instance: _panel.webview.html
    reqPanel,      \* per request (one call of _update): its panel, 0 if not started
    awaiting,      \* per request: index in ProbeOrder of the call it is suspended on
    probeState,    \* per request and probe: state of the promise the call returned
    probeValue,    \* per request and probe: the value that promise resolved with
    calls,         \* per request and probe: how often the probe was called
    locals,        \* per invocation frame: the locals the awaits assign
    assembled,     \* per invocation frame: the local `input`, Undefined until assigned
    promise,       \* per request: the promise _getHtmlForWebview returned
    notices,       \* number of vscode.window.showErrorMessage calls
    rin,           \* renderer run on its own: the input record
    rout           \* renderer run on its own: the report, or NotRendered

panelVars == << currentPanel, panelState, visible, disposables, disposals >>
requestVars == << title, reqPanel, awaiting, probeState, probeValue, calls, locals,
                 assembled, promise >>
renderVars == << rin, rout >>
vars == << currentPanel, panelState, visible, disposables, disposals, title, html, reqPanel,
           awaiting, probeState, probeValue, calls, locals, assembled, promise, notices,
           rin, rout >>

EmptyHtml == [t |-> "empty"]
NotRendered == [t |-> "none"]
PromiseObject == Text("[object Promise]")
Listeners == << "onDidDispose", "onDidChangeViewState", "onDidReceiveMessage" >>

\* the answers of the host while panels are operated
ProbeResults(p) ==
    CASE p = "staticData" -> {StaticSample(CacheRecord, << "A" >>)}
      [] p = "locale" -> {Text("en_US")}
      [] p = "listeningIp" -> {IpSample}
      [] p = "time" -> {TimeSample}
      [] p = "currentLoad" -> {LoadSample(1)}
      [] p = "cpuCurrentspeed" -> {SpeedSample(1)}
      [] p = "cpuTemp" -> {TempSample(1)}
      [] p = "processes" -> {ProcessSample}
      [] p = "memoryUsage" -> {MemSample(30, 8, 16, 0, 0), MemSample(30, 3, 16, 8, 8)}
      [] p = "fsSizes" -> {<< FsEntry("/", 16, 8, 7) >>,
                           << FsEntry("/data", 8, 8, 0), FsEntry("/", 16, 8, 7) >>}

DefaultLocals == [p \in Probes |-> CHOOSE v \in ProbeResults(p) : TRUE]

PanelInit ==
    /\ currentPanel = 0
    /\ panelState = [p \in Panels |-> "none"]
    /\ visible = [p \in Panels |-> FALSE]
    /\ disposables = [p \in Panels |-> << >>]
    /\ disposals = [p \in Panels |-> [l \in {"onDidDispose", "onDidChangeViewState", "onDidReceiveMessage"} |-> 0]]
    /\ title = [p \in Panels |-> ""]
    /\ html = [p \in Panels |-> EmptyHtml]
    /\ reqPanel = [r \in Requests |-> 0]
    /\ awaiting = [r \in Requests |-> 0]
    /\ probeState = [r \in Requests |-> [p \in Probes |-> "idle"]]
    /\ probeValue = [r \in Requests |-> [p \in Probes |-> Undefined]]
    /\ calls = [r \in Requests |-> [p \in Probes |-> 0]]
    /\ locals = [r \in Requests |-> [p \in Probes |-> Undefined]]
    /\ assembled = [r \in Requests |-> Undefined]
    /\ promise = [r \in Requests |-> [state |-> "none", value |-> Undefined]]
    /\ notices = 0

Init ==
    /\ PanelInit
    /\ rin = AssembleInput(DefaultLocals)
    /\ rout = NotRendered

(***************************************************************************)
(* A snapshot request: _update and the async function _getHtmlForWebview.  *)
(***************************************************************************)
\* mutant: the locale call is not awaited
SuspendsButLocale(p) == p # "locale"

\* whether _getHtmlForWebview suspends on the call of probe p (the call is awaited)
Suspends(p) == TRUE

RECURSIVE NextAwait(_)
\* the first call at or after index j that suspends the function; NProbes + 1 if none
NextAwait(j) ==
    IF j > NProbes THEN NProbes + 1
    ELSE IF Suspends(ProbeOrder[j]) THEN j
    ELSE NextAwait(j + 1)

\* mutant: the locale is cleared between assembly and the template
AfterAssemblyClobbered(in) == [in EXCEPT !.locale = Undefined]

\* the input as the template reads it, after the statements that follow its
\* assignment (lastUpdate, nonce)
AfterAssembly(in) == in

\* mutant: the locals are kept in one place shared by all requests
FrameShared(r) == 1

\* the frame holding the locals of request r: each invocation has its own
Frame(r) == r

\* Request r of panel `panel` runs on from the call at index `from` until it suspends
\* again or returns; ps and loc are its promises' states and its locals so far.  On
\* return the promise is fulfilled and the callback _update registered assigns the html.
Continue(r, panel, from, ps, loc) ==
    LET stop == NextAwait(from)
        issued == from..Min(stop, NProbes)
        loc2 == [ p \in Probes |->
                    IF ProbeIndex(p) \in issued /\ ProbeIndex(p) < stop
                    THEN PromiseObject ELSE loc[p] ]
        in == AssembleInput(loc2)
        report == Render(AfterAssembly(in))
    IN  /\ probeState' = [probeState EXCEPT ![r] =
              [p \in Probes |-> IF ProbeIndex(p) \in issued THEN "pending" ELSE ps[p]]]
        /\ calls' = [calls EXCEPT ![r] =
              [p \in Probes |-> IF ProbeIndex(p) \in issued
                                THEN calls[r][p] + 1 ELSE calls[r][p]]]
        /\ locals' = [locals EXCEPT ![Frame(r)] = loc2]
        /\ awaiting' = [awaiting EXCEPT ![r] = stop]
        /\ IF stop > NProbes
           THEN /\ assembled' = [assembled EXCEPT ![Frame(r)] = in]
                /\ promise' = [promise EXCEPT ![r] = [state |-> "fulfilled", value |-> report]]
                /\ html' = [html EXCEPT ![panel] = report]
           ELSE /\ promise' = [promise EXCEPT ![r] = [state |-> "pending", value |-> Undefined]]
                /\ UNCHANGED << assembled, html >>

\* _update() of panel p: sets the title and starts a request, which runs up to its
\* first await
Update(p) ==
    \E r \in Requests :
        /\ reqPanel[r] = 0
        /\ \A q \in Requests : q < r => reqPanel[q] # 0
        /\ title' = [title EXCEPT ![p] = "System Information"]
        /\ reqPanel' = [reqPanel EXCEPT ![r] = p]
        /\ Continue(r, p, 1, probeState[r], locals[Frame(r)])
        /\ UNCHANGED << probeValue, notices >>

NoUpdate == UNCHANGED << requestVars, html, notices >>

\* the probe request r is suspended on
Awaited(r) == ProbeOrder[awaiting[r]]

IsSuspended(r) ==
    /\ awaiting[r] \in 1..NProbes
    /\ probeState[r][Awaited(r)] = "pending"

\* the awaited probe resolves with a value and the function runs on
ProbeResolve(r) ==
    /\ IsSuspended(r)
    /\ \E v \in ProbeResults(Awaited(r)) :
          /\ probeValue' = [probeValue EXCEPT ![r][Awaited(r)] = v]
          /\ Continue(r, reqPanel[r], awaiting[r] + 1,
                      [probeState[r] EXCEPT ![Awaited(r)] = "resolved"],
                      [locals[Frame(r)] EXCEPT ![Awaited(r)] = v])
    /\ UNCHANGED << panelVars, title, reqPanel, notices, renderVars >>

\* mutant: a rejected probe is called again and awaited anew
ProbeRejectRetry(r) ==
    /\ IsSuspended(r)
    /\ calls' = [calls EXCEPT ![r][Awaited(r)] = calls[r][Awaited(r)] + 1]
    /\ UNCHANGED << panelVars, title, html, reqPanel, awaiting, probeState, probeValue,
                    locals, assembled, promise, notices, renderVars >>

\* the awaited probe rejects: the await throws, nothing catches it, the promise of
\* _getHtmlForWebview rejects, and _update registered no rejection handler
ProbeReject(r) ==
    /\ IsSuspended(r)
    /\ probeState' = [probeState EXCEPT ![r][Awaited(r)] = "rejected"]
    /\ awaiting' = [awaiting EXCEPT ![r] = NProbes + 1]
    /\ promise' = [promise EXCEPT ![r] = [state |-> "rejected", value |-> Undefined]]
    /\ UNCHANGED << panelVars, title, html, reqPanel, probeValue, calls, locals, assembled,
                    notices, renderVars >>

\* the awaited probe turns out never to settle
ProbeHang(r) ==
    /\ IsSuspended(r)
    /\ probeState' = [probeState EXCEPT ![r][Awaited(r)] = "hung"]
    /\ UNCHANGED << panelVars, title, html, reqPanel, awaiting, probeValue, calls,
                    locals, assembled, promise, notices, renderVars >>

(***************************************************************************)
(* The panel lifecycle.                                                    *)
(***************************************************************************)
\* the constructor on a fresh instance p: _update(), then the three listeners
Construct(p) ==
    /\ panelState' = [panelState EXCEPT ![p] = "live"]
    /\ visible' = [visible EXCEPT ![p] = TRUE]
    /\ disposables' = [disposables EXCEPT ![p] = Listeners]
    /\ UNCHANGED disposals
    /\ Update(p)

IsFresh(p) ==
    /\ panelState[p] = "none"
    /\ \A q \in Panels : q < p => panelState[q] # "none"

HasListener(p, l) == \E i \in DOMAIN disposables[p] : disposables[p][i] = l

\* mutant: createOrShow creates a panel whether or not one is current
CreateOrShowAlwaysCreates ==
    /\ \E p \in Panels :
          /\ IsFresh(p)
          /\ Construct(p)
          /\ currentPanel' = p
    /\ UNCHANGED renderVars

\* createOrShow: reveal the current panel, or create one.  Revealing a hidden panel
\* makes it visible, on which the host fires onDidChangeViewState.
CreateOrShow ==
    /\ IF currentPanel # 0
       THEN /\ visible' = [visible EXCEPT ![currentPanel] = TRUE]
            /\ IF ~visible[currentPanel] /\ HasListener(currentPanel, "onDidChangeViewState")
               THEN Update(currentPanel)
               ELSE NoUpdate
            /\ UNCHANGED << currentPanel, panelState, disposables, disposals >>
       ELSE \E p \in Panels :
               /\ IsFresh(p)
               /\ Construct(p)
               /\ currentPanel' = p
    /\ UNCHANGED renderVars

\* revive: the host hands over a restored webview panel
Revive ==
    /\ \E p \in Panels :
          /\ IsFresh(p)
          /\ Construct(p)
          /\ currentPanel' = p
    /\ UNCHANGED renderVars

\* mutant: the listener updates whether or not the panel is visible
ChangeViewStateAlways(p, v) ==
    /\ panelState[p] = "live"
    /\ visible' = [visible EXCEPT ![p] = v]
    /\ IF HasListener(p, "onDidChangeViewState")
       THEN Update(p)
       ELSE NoUpdate
    /\ UNCHANGED << currentPanel, panelState, disposables, disposals, renderVars >>

\* the host reports a view-state change of panel p, which is then visible or not
ChangeViewState(p, v) ==
    /\ panelState[p] = "live"
    /\ visible' = [visible EXCEPT ![p] = v]
    /\ IF HasListener(p, "onDidChangeViewState") /\ v
       THEN Update(p)
       ELSE NoUpdate
    /\ UNCHANGED << currentPanel, panelState, disposables, disposals, renderVars >>

\* mutant: the loop disposes every element and leaves the array as it is
DisposeAllNoPop(st) ==
    [st EXCEPT !.counts = [l \in DOMAIN st.counts |->
        st.counts[l] + Cardinality({i \in DOMAIN st.disposables : st.disposables[i] = l})]]

RECURSIVE PopAll(_)
\* the while loop of dispose(): pop the last disposable and dispose it, until none
PopAll(st) ==
    IF st.disposables = << >> THEN st
    ELSE LET x == st.disposables[Len(st.disposables)]
         IN  PopAll([st EXCEPT !.disposables = SubSeq(st.disposables, 1, Len(st.disposables) - 1),
                               !.counts[x] = st.counts[x] + 1])

RECURSIVE dispose(_)
\* dispose() run to completion on st, the part of the state it touches: currentPanel,
\* whether the host's panel is disposed, _disposables and the dispose() counts.  The
\* host's panel.dispose() does nothing on a disposed panel; on a live one it marks it
\* disposed and fires onDidDispose, whose listener calls dispose() again.
dispose(st) ==
    LET cleared == [st EXCEPT !.current = 0]
        marked == [cleared EXCEPT !.hostDisposed = TRUE]
        afterPanel ==
            IF cleared.hostDisposed THEN cleared
            ELSE IF \E i \in DOMAIN marked.disposables : marked.disposables[i] = "onDidDispose"
                 THEN dispose(marked)
                 ELSE marked
    IN  PopAll(afterPanel)

\* the part of the state dispose() of instance p runs on
DisposeState(p, hostDisposed) ==
    [ current |-> currentPanel, hostDisposed |-> hostDisposed,
      disposables |-> disposables[p], counts |-> disposals[p] ]

\* the state after a run of dispose() of instance p that ended in st
Disposed(p, st) ==
    /\ currentPanel' = st.current
    /\ panelState' = [panelState EXCEPT ![p] = "disposed"]
    /\ visible' = [visible EXCEPT ![p] = FALSE]
    /\ disposables' = [disposables EXCEPT ![p] = st.disposables]
    /\ disposals' = [disposals EXCEPT ![p] = st.counts]
    /\ NoUpdate
    /\ UNCHANGED renderVars

\* the panel of instance p is closed: the host disposes it and fires onDidDispose,
\* whose listener runs dispose()
Dispose(p) ==
    /\ panelState[p] = "live"
    /\ HasListener(p, "onDidDispose")
    /\ Disposed(p, dispose(DisposeState(p, TRUE)))

\* a caller invokes the public dispose() of instance p, be it live or disposed
DisposeCall(p) ==
    /\ panelState[p] # "none"
    /\ Disposed(p, dispose(DisposeState(p, panelState[p] = "disposed")))

\* the webview of panel p posts a message
ReceiveMessage(p, command) ==
    /\ panelState[p] = "live"
    /\ HasListener(p, "onDidReceiveMessage")
    /\ IF command = "alert"
       THEN /\ notices < MaxNotices
            /\ notices' = notices + 1
       ELSE UNCHANGED notices
    /\ UNCHANGED << panelVars, requestVars, html, renderVars >>

Next ==
    \/ CreateOrShow
    \/ Revive
    \/ \E p \in Panels, v \in BOOLEAN : ChangeViewState(p, v)
    \/ \E p \in Panels : Dispose(p)
    \/ \E p \in Panels, c \in {"alert", "refactor"} : ReceiveMessage(p, c)
    \/ \E r \in Requests : ProbeResolve(r)
    \/ \E r \in Requests : ProbeReject(r)
    \/ \E r \in Requests : ProbeHang(r)

Spec == Init /\ [][Next]_vars

\* the extension in a window that has no panel to restore: revive is never called
LifecycleNext ==
    \/ CreateOrShow
    \/ \E p \in Panels, v \in BOOLEAN : ChangeViewState(p, v)
    \/ \E p \in Panels : Dispose(p)
    \/ \E p \in Panels, c \in {"alert", "refactor"} : ReceiveMessage(p, c)
    \/ \E r \in Requests : ProbeResolve(r)
    \/ \E r \in Requests : ProbeReject(r)
    \/ \E r \in Requests : ProbeHang(r)

LifecycleSpec == Init /\ [][LifecycleNext]_vars

\* the extension together with callers of the public dispose()
DisposeNext ==
    \/ Next
    \/ \E p \in Panels : DisposeCall(p)

DisposeSpec == Init /\ [][DisposeNext]_vars

(***************************************************************************)
(* The renderer on its own: any snapshot the host can produce is assembled *)
(* and rendered once.                                                      *)
(***************************************************************************)
SnapshotLocals(static, cpu, mem, fs) ==
    [ p \in Probes |->
        CASE p = "staticData" -> static
          [] p = "currentLoad" -> cpu.load
          [] p = "cpuCurrentspeed" -> cpu.speed
          [] p = "cpuTemp" -> cpu.temp
          [] p = "memoryUsage" -> mem
          [] p = "fsSizes" -> fs
          [] OTHER -> DefaultLocals[p] ]

Snapshots ==
    { AssembleInput(SnapshotLocals(s, c, m, f)) :
        s \in StaticSamples, c \in CpuSamples, m \in MemSamples, f \in FsLists }

RenderInit ==
    /\ PanelInit
    /\ rin \in Snapshots
    /\ rout = NotRendered

RenderStep ==
    /\ rout = NotRendered
    /\ rout' = Render(rin)
    /\ UNCHANGED << panelVars, requestVars, html, notices, rin >>

RenderNext == RenderStep

RenderSpec == RenderInit /\ [][RenderNext]_vars

(***************************************************************************)
(* Properties.                                                             *)
(***************************************************************************)
Fulfilled(r) == promise[r].state = "fulfilled"
Rejected(r) == promise[r].state = "rejected"
Rendered == rout # NotRendered

\* C1: within a request every probe call is issued before any probe has completed
\* (no probe's start waits on another probe's completion).
C1_AllIssuedBeforeAnyCompletes ==
    \A r \in Requests : \A p, q \in Probes :
        probeState[r][p] \in {"resolved", "rejected"} => probeState[r][q] # "idle"

\* C2: when exactly one probe of a request faults and every other probe succeeds, a
\* report is still produced and written to the panel.
C2_SingleFaultStillReports ==
    \A r \in Requests : \A p \in Probes :
        ( /\ probeState[r][p] = "rejected"
          /\ \A q \in Probes \ {p} : probeState[r][q] = "resolved" )
        => /\ Fulfilled(r)
           /\ html[reqPanel[r]] = promise[r].value

\* C3: when a probe of a request never settles, every other probe of the request has
\* still been started (so that the report can be produced without it).
C3_HangingProbeBlocksNothing ==
    \A r \in Requests : \A p, q \in Probes :
        probeState[r][p] = "hung" => probeState[r][q] # "idle"

\* C4: a request's report is built and written only after every probe the request
\* launched has settled, and never from a subset of the probes' results.
C4_ReportOnlyAfterAllSettled ==
    /\ \A r \in Requests :
          Fulfilled(r) =>
             \A p \in Probes :
                /\ calls[r][p] > 0 => probeState[r][p] \in {"resolved", "rejected"}
                /\ probeState[r][p] = "resolved"
    /\ \A pl \in Panels :
          html[pl] # EmptyHtml =>
             \E r \in Requests :
                reqPanel[r] = pl /\ Fulfilled(r) /\ html[pl] = promise[r].value

C4_Witness ==
    \E r \in Requests : Fulfilled(r) /\ html[reqPanel[r]] = promise[r].value

\* C5: once a panel is disposed, no request writes a report to its webview.
C5_NoWriteAfterDispose ==
    [][ \A p \in Panels : panelState[p] = "disposed" => html'[p] = html[p] ]_vars

\* C6: a request that overlaps another makes its own call of every probe, exactly
\* once, and its report is rendered from the values its own calls returned.
C6_RequestsIndependent ==
    \A r \in Requests :
        Fulfilled(r) =>
           /\ \A p \in Probes : calls[r][p] = 1
           /\ promise[r].value = Render(AssembleInput(probeValue[r]))

\* a later request has finished while an earlier one is still in flight, and the two
\* were given different memory samples
C6_Witness ==
    \E r1, r2 \in Requests :
        /\ r1 < r2
        /\ Fulfilled(r2)
        /\ IsSuspended(r1)
        /\ probeState[r1]["memoryUsage"] = "resolved"
        /\ probeValue[r1]["memoryUsage"] # probeValue[r2]["memoryUsage"]

\* C7: a request that fails wholesale leaves an explicit report in the panel and one
\* user-facing notice.
C7_WholesaleFailureReported ==
    \A r \in Requests :
        Rejected(r) => /\ html[reqPanel[r]] # EmptyHtml
                       /\ notices = 1

\* C8: in every rendered report a per-core value the snapshot lacks appears as a
\* placeholder, never as the text "undefined".
C8_AbsentRendersPlaceholder ==
    Rendered =>
       \A i \in DOMAIN rout.cpu :
          /\ At(rin.cpuTemp.cores, i - 1) = Undefined
                => rout.cpu[i].temp \in {"N/A", "unavailable"}
          /\ At(rin.cpuCurrentspeed.cores, i - 1) = Undefined
                => rout.cpu[i].speed \in {"N/A", "unavailable"}
          /\ rout.cpu[i].temp # "undefined"
          /\ rout.cpu[i].speed # "undefined Ghz"

\* C9: a percentage with denominator 0 renders as "N/A": the swap usage cell when
\* swaptotal = 0, and the usage cell of a filesystem of size 0.
C9_ZeroDenominatorRendersNA ==
    Rendered =>
       /\ IsZero(rin.memoryUsage.swaptotal) => rout.swap.usage = "N/A"
       /\ \A i \in DOMAIN rout.storage :
             IsZero(rin.fsSize[i].size) => rout.storage[i].usage = "N/A"

Abs(x) == IF x < 0 THEN 0 - x ELSE x

\* C10: the physical-memory usage cell is h/100 written with exactly two decimals and
\* a % sign, where h is a number of hundredths nearest to used/total*100 and
\* 0 <= h <= 10000; for 8 GiB used of 16 GiB it reads "50.00%".
C10_PhysicalUsagePercent ==
    Rendered =>
       LET u == rin.memoryUsage.used.n
           t == rin.memoryUsage.total.n
           h0 == (10000 * u) \div t
       IN  /\ \E h \in {h0, h0 + 1} :
                /\ 0 <= h /\ h <= 10000
                /\ 2 * Abs(h * t - 10000 * u) <= t
                /\ rout.physical.usage = ToString(h \div 100) \o "." \o Pad2(h % 100) \o "%"
           /\ (rin.memoryUsage.used = GiB(8) /\ rin.memoryUsage.total = GiB(16))
                 => rout.physical.usage = "50.00%"

C10_Witness ==
    /\ Rendered
    /\ rin.memoryUsage.used = GiB(8)
    /\ rin.memoryUsage.total = GiB(16)
    /\ rout.physical.usage = "50.00%"

RECURSIVE Log2Floor(_)
\* the largest j with 2^j <= k, for k >= 1
Log2Floor(k) == IF k <= 1 THEN 0 ELSE 1 + Log2Floor(k \div 2)

BinaryUnits == << "B", "KB", "MB", "GB", "TB" >>

\* the index of the largest unit in which the byte count x is at least 1 (0 for bytes)
LargestUnit(x) == IF x.n = 0 THEN 0 ELSE (x.e + Log2Floor(x.n)) \div 10

\* a byte count in its largest unit, with two decimals, followed by the unit
InLargestUnit(x) ==
    ToFixed2(Fin(x.n, x.d, x.e - 10 * LargestUnit(x))) \o " " \o BinaryUnits[LargestUnit(x) + 1]

\* C11: every byte quantity of the report is written with two decimals in the largest
\* binary unit in which it is at least 1 (bytes below 1024), so its numeric part is
\* below 1024; stated for the memory and swap cells.
C11_BytesInLargestUnit ==
    Rendered =>
       LET m == rin.memoryUsage
       IN  /\ rout.physical.free = InLargestUnit(m.free)
           /\ rout.physical.used = InLargestUnit(m.used)
           /\ rout.physical.total = InLargestUnit(m.total)
           /\ rout.swap.free = InLargestUnit(m.swapfree)
           /\ rout.swap.used = InLargestUnit(m.swapused)
           /\ rout.swap.total = InLargestUnit(m.swaptotal)

\* C12: for an empty filesystem list the report is rendered, its Storage Usage
\* section has its header and no row, and the other sections are as for any list.
C12_EmptyFilesystemList ==
    (Rendered /\ rin.fsSize = << >>) =>
       /\ rout.storage = << >>
       /\ rout.storageHead = StorageHead
       /\ rout.physical = PhysicalRow(rin.memoryUsage)
       /\ Len(rout.cpu) = Len(rin.currentLoad.cpus)

C12_Witness ==
    /\ Rendered
    /\ rin.fsSize = << >>
    /\ rout.storage = << >>
    /\ rout.gpu # << >>

\* C13: every list-valued field of length n is rendered as exactly n rows or
\* sub-tables, the k-th of them showing the k-th element the probe returned.
C13_ListsRenderedInInputOrder ==
    Rendered =>
       LET s == rin.staticData
       IN  /\ Len(rout.cpu) = Len(rin.currentLoad.cpus)
           /\ \A k \in DOMAIN rout.cpu :
                 rout.cpu[k].load = ToFixed2(rin.currentLoad.cpus[k].load) \o "%"
           /\ Len(rout.gpu) = Len(s.graphics.controllers)
           /\ \A k \in DOMAIN rout.gpu :
                 rout.gpu[k].model = Str(s.graphics.controllers[k].model)
           /\ Len(rout.display) = Len(s.graphics.displays)
           /\ \A k \in DOMAIN rout.display :
                 rout.display[k].model = Str(s.graphics.displays[k].model)
           /\ Len(rout.memLayout) = Len(s.memLayout)
           /\ \A k \in DOMAIN rout.memLayout :
                 rout.memLayout[k].bank = Str(s.memLayout[k].bank)
           /\ Len(rout.diskLayout) = Len(s.diskLayout)
           /\ \A k \in DOMAIN rout.diskLayout :
                 rout.diskLayout[k].name = Str(s.diskLayout[k].name)
           /\ Len(rout.storage) = Len(rin.fsSize)
           /\ \A k \in DOMAIN rout.storage :
                 /\ rout.storage[k].mount = Str(rin.fsSize[k].mount)
                 /\ rout.storage[k].usage = PercentCell(rin.fsSize[k].used, rin.fsSize[k].size)

\* two different disks and two different filesystems, the larger name first, and
\* two cores with different loads
C13_Witness ==
    /\ Rendered
    /\ Len(rin.currentLoad.cpus) = 2
    /\ Len(rin.fsSize) = 2
    /\ rin.fsSize[1].mount = Text("/data")
    /\ rin.fsSize[2].mount = Text("/")
    /\ Len(rin.staticData.diskLayout) = 2
    /\ rin.staticData.diskLayout[1].name = Text("B")
    /\ rout.diskLayout[1].name = "B"
    /\ rout.diskLayout[2].name = "A"
    /\ rout.storage[1].mount = "/data"

\* the sections of a report, the rows of each in order, and the cells of each row
Structure(report) ==
    [ sections |-> DOMAIN report,
      vital |-> DOMAIN report.vital,
      cpu |-> [ i \in DOMAIN report.cpu |-> DOMAIN report.cpu[i] ],
      physical |-> DOMAIN report.physical,
      swap |-> DOMAIN report.swap,
      storageHead |-> report.storageHead,
      storage |-> [ i \in DOMAIN report.storage |-> DOMAIN report.storage[i] ],
      cache |-> DOMAIN report.cache,
      gpu |-> [ i \in DOMAIN report.gpu |-> DOMAIN report.gpu[i] ],
      display |-> [ i \in DOMAIN report.display |-> DOMAIN report.display[i] ],
      memLayout |-> [ i \in DOMAIN report.memLayout |-> DOMAIN report.memLayout[i] ],
      diskLayout |-> [ i \in DOMAIN report.diskLayout |-> DOMAIN report.diskLayout[i] ] ]

\* the list lengths of the probe results a request was given
ListLengths(r) ==
    LET v == probeValue[r]
    IN  << Len(v["staticData"].graphics.controllers), Len(v["staticData"].graphics.displays),
           Len(v["staticData"].memLayout), Len(v["staticData"].diskLayout),
           Len(v["currentLoad"].cpus), Len(v["fsSizes"]) >>

\* C14: two requests whose probes returned results of the same list lengths produce
\* reports with the same sections and the same rows in the same order, and with the
\* same hardware sections.
C14_SameHostSameStructure ==
    \A r1, r2 \in Requests :
        ( /\ r1 < r2
          /\ Fulfilled(r1)
          /\ Fulfilled(r2)
          /\ ListLengths(r1) = ListLengths(r2) ) =>
            /\ Structure(promise[r1].value) = Structure(promise[r2].value)
            /\ probeValue[r1]["staticData"] = probeValue[r2]["staticData"] =>
                  \A f \in {"cache", "gpu", "display", "memLayout", "diskLayout"} :
                      promise[r1].value[f] = promise[r2].value[f]

\* both requests have produced their report, from different memory samples
C14_Witness ==
    /\ Fulfilled(1)
    /\ Fulfilled(2)
    /\ ListLengths(1) = ListLengths(2)
    /\ probeValue[1]["memoryUsage"] # probeValue[2]["memoryUsage"]
    /\ promise[1].value # promise[2].value

\* the requests started so far
Started == { r \in Requests : reqPanel[r] # 0 }

\* C15: a display request through createOrShow starts a probe run: whenever the
\* command can be served (a panel exists or one can be created, and a request can
\* still start), serving it starts a new request.
C15_DisplayRequestStartsRun ==
    ( /\ Started # Requests
      /\ (currentPanel # 0 \/ \E p \in Panels : IsFresh(p)) ) =>
         ENABLED (CreateOrShow /\ reqPanel' # reqPanel)

\* C16: within one request each probe is invoked at most once; a probe that failed
\* was invoked once and the request invokes nothing after it.
C16_ProbeInvokedAtMostOnce ==
    \A r \in Requests : \A p \in Probes :
        /\ calls[r][p] <= 1
        /\ probeState[r][p] # "idle" => calls[r][p] = 1
        /\ probeState[r][p] = "rejected" =>
              /\ calls[r][p] = 1
              /\ \A q \in Probes : ProbeIndex(q) > ProbeIndex(p) => calls[r][q] = 0

\* a probe in the middle of the sequence has failed, after others succeeded
C16_Witness ==
    \E r \in Requests :
        /\ probeState[r]["time"] = "rejected"
        /\ probeState[r]["staticData"] = "resolved"
        /\ calls[r]["time"] = 1
        /\ Rejected(r)

\* C17: the report of a request is rendered from its input exactly as assembled
\* from the probe values, and the assembled input stays as it was.
C17_InputUnchangedAfterAssembly ==
    \A r \in Requests :
        Fulfilled(r) =>
           /\ assembled[Frame(r)] = AssembleInput(probeValue[r])
           /\ promise[r].value = Render(assembled[Frame(r)])

\* a request has produced its report and the other request has acted since
C17_Witness ==
    /\ Fulfilled(1)
    /\ assembled[Frame(1)] # Undefined
    /\ awaiting[2] > 1
    /\ probeValue[1]["memoryUsage"] # probeValue[2]["memoryUsage"]

\* the instances constructed and not disposed
Live == { p \in Panels : panelState[p] = "live" }

\* C18: with createOrShow and dispose only, at most one panel is live; createOrShow
\* with a live panel creates none, and createOrShow with none creates exactly one.
C18_CreateOrShowKeepsOnePanel ==
    /\ [](Cardinality(Live) <= 1)
    /\ [][ CreateOrShow =>
             IF Live # {}
             THEN Live' = Live
             ELSE Cardinality(Live') = 1 /\ currentPanel' \in Live' ]_vars

\* a panel was created, disposed, and createOrShow has created the next one
C18_Witness ==
    /\ panelState[1] = "disposed"
    /\ panelState[2] = "live"
    /\ currentPanel = 2
    /\ Cardinality(Live) = 1

\* C19: whatever createOrShow, revive and dispose have done, at most one instance is
\* live and currentPanel refers to it.
C19_OneLivePanelTracked ==
    /\ Cardinality(Live) <= 1
    /\ \A p \in Live : currentPanel = p

\* C20: currentPanel is undefined only when no instance is live.
C20_UndefinedOnlyWhenNoneLive ==
    currentPanel = 0 => Live = {}

\* the requests started for panel p
RequestsOf(p) == { r \in Requests : reqPanel[r] = p }

\* C21: once every request of a live panel has produced its report, the panel shows
\* the report of the request that was started last.
C21_LatestRequestWins ==
    \A p \in Panels :
        ( /\ panelState[p] = "live"
          /\ RequestsOf(p) # {}
          /\ \A r \in RequestsOf(p) : Fulfilled(r) ) =>
             html[p] = promise[CHOOSE r \in RequestsOf(p) :
                                  \A q \in RequestsOf(p) : q <= r].value

\* C22: after dispose(), however it was entered and however often, _disposables is
\* empty and each of the three listeners was disposed exactly once.
C22_DisposeCleansUpOnce ==
    \A p \in Panels :
        /\ panelState[p] = "disposed" =>
              /\ disposables[p] = << >>
              /\ \A l \in DOMAIN disposals[p] : disposals[p][l] = 1
        /\ panelState[p] # "disposed" =>
              \A l \in DOMAIN disposals[p] : disposals[p][l] = 0

\* one instance was disposed through the host's callback or a direct call, and
\* dispose() has run on the other while it was live and again afterwards
C22_Witness ==
    /\ panelState[1] = "disposed"
    /\ panelState[2] = "disposed"
    /\ \A l \in DOMAIN disposals[2] : disposals[2][l] = 1
    /\ currentPanel = 0

\* C23: a view-state change of a panel starts a request exactly when the panel is
\* visible after it; a change that leaves it hidden issues no probe call and leaves
\* every panel's html as it was.
C23_UpdateOnlyWhenVisible ==
    [][ \A p \in Panels, v \in BOOLEAN :
          ChangeViewState(p, v) =>
             /\ (RequestsOf(p)' # RequestsOf(p)) <=> v
             /\ v => Cardinality(Started') = Cardinality(Started) + 1
             /\ ~v => calls' = calls /\ html' = html /\ Started' = Started ]_vars

\* a panel that shows a report has been hidden after a view-state change started
\* its second request
C23_Witness ==
    /\ panelState[1] = "live"
    /\ ~visible[1]
    /\ RequestsOf(1) = {1, 2}
    /\ html[1] # EmptyHtml

\* C24: the text of every list section is the concatenation of its row fragments,
\* nothing between consecutive rows.
C24_NoSeparatorBetweenRows ==
    Rendered =>
       /\ rout.text.cpu = Join([ i \in DOMAIN rout.cpu |-> CpuFragment(rout.cpu[i]) ], "")
       /\ rout.text.storage =
             Join([ i \in DOMAIN rout.storage |-> StorageFragment(rout.storage[i]) ], "")
       /\ rout.text.gpu = Join([ i \in DOMAIN rout.gpu |-> GpuFragment(rout.gpu[i]) ], "")
       /\ rout.text.display =
             Join([ i \in DOMAIN rout.display |-> DisplayFragment(rout.display[i]) ], "")
       /\ rout.text.memLayout =
             Join([ i \in DOMAIN rout.memLayout |-> MemLayoutFragment(rout.memLayout[i]) ], "")
       /\ rout.text.diskLayout =
             Join([ i \in DOMAIN rout.diskLayout |-> DiskFragment(rout.diskLayout[i]) ], "")

\* C25: in every list section the element at 0-based position i is labelled i + 1.
C25_LabelsCountFromOne ==
    Rendered =>
       /\ \A k \in DOMAIN rout.cpu : rout.cpu[k].core = "Core " \o ToString(k)
       /\ \A k \in DOMAIN rout.gpu : rout.gpu[k].label = ToString(k)
       /\ \A k \in DOMAIN rout.display : rout.display[k].label = ToString(k)
       /\ \A k \in DOMAIN rout.memLayout : rout.memLayout[k].label = ToString(k)
       /\ \A k \in DOMAIN rout.diskLayout : rout.diskLayout[k].label = ToString(k)

\* C26: the derived filesystem record keeps fs, type, size, used, available, use and
\* mount of the probe's entry; its Free column is the rendering of size - used, which
\* for used <= size is not negative and adds up with used to size.
C26_FreeIsSizeMinusUsed ==
    \A r \in Requests :
        Fulfilled(r) =>
           LET src == probeValue[r]["fsSizes"]
               derived == assembled[Frame(r)].fsSize
               rows == promise[r].value.storage
           IN  /\ Len(derived) = Len(src)
               /\ \A k \in DOMAIN src :
                     LET free == JsSub(src[k].size, src[k].used)
                     IN  /\ \A f \in DOMAIN src[k] : derived[k][f] = src[k][f]
                         /\ derived[k].prettyFree = PrettyBytes(free)
                         /\ rows[k].free = Str(PrettyBytes(free))
                         /\ free.n >= 0
                         /\ IsZero(JsSub(JsSub(src[k].size, free), src[k].used))

\* a report was produced for a filesystem whose available is less than size - used
C26_Witness ==
    \E r \in Requests :
        /\ Fulfilled(r)
        /\ Len(probeValue[r]["fsSizes"]) = 2
        /\ \E k \in DOMAIN probeValue[r]["fsSizes"] :
              LET e == probeValue[r]["fsSizes"][k]
              IN  /\ e.available # JsSub(e.size, e.used)
                  /\ promise[r].value.storage[k].free # Str(PrettyBytes(e.available))

====
